---- MODULE Spec2Model ----
(***************************************************************************)
(* Availability and booking engine of Carehub (core/models.py,             *)
(* core/views.py, core/api, core/utils).                                   *)
(*                                                                         *)
(* Time is one local calendar day (date 0, a Monday), counted in quarter   *)
(* hours from local midnight: the datetime of time t on date d is          *)
(* d * DayLen + t.  Rows of a table are kept in creation order; the        *)
(* primary key of a row is its index.                                      *)
(***************************************************************************)
EXTENDS Integers, Sequences, FiniteSets

\* ---------------------------------------------------------------- bounds
MaxTime == 3       \* last instant of the modelled day
MaxNow == 1        \* the clock advances up to this instant
MaxSlots == 2      \* AvailabilitySlot rows
MaxFlex == 2       \* FlexAppointment rows
MaxDur == 2        \* longest requested duration / slot length
MaxRows == 2       \* stored weekly windows, and stored date overrides

Physicians == {"dr1", "dr2"}
Patients == {"pt1", "pt2"}
Users == Physicians \cup Patients
\* the provider whose calendar the runs Spec and SpecConc exercise
OnCall == {"dr1"}
Times == 0..MaxTime
Durations == 1..MaxDur
Dates == {0}
NoFlex == 0

VARIABLES
    now,        \* timezone.now()
    slots,      \* AvailabilitySlot table
    appts,      \* Appointment table (legacy, bound to a slot)
    flex,       \* FlexAppointment table
    weekly,     \* PhysicianWeeklyAvailability rows
    overrides,  \* PhysicianDateOverride rows
    pc,         \* position of each concurrent request handler
    req,        \* arguments, local variables and response of each concurrent request
    timeoff,    \* TimeOff table
    answer      \* the last availability query and what it returned

vars == <<now, slots, appts, flex, weekly, overrides, pc, req, timeoff, answer>>
dbvars == <<slots, appts, flex, weekly, overrides>>
concvars == <<pc, req>>
availvars == <<timeoff, answer>>

\* ------------------------------------------------------------ User.role
role(u) == IF u \in Physicians THEN "PHYSICIAN" ELSE "PATIENT"

is_physician(u) == role(u) = "PHYSICIAN"

ActiveStates == {"PENDING", "CONFIRMED"}
Statuses == {"PENDING", "CONFIRMED", "CANCELLED"}

\* Q(start__lt=end) & Q(end__gt=start): row [rs, re) against [s, e)
\* the overlap test with closed ends: intervals that touch count as overlapping
Overlaps_Closed(rs, re, s, e) == rs <= e /\ re >= s

Overlaps(rs, re, s, e) == rs < e /\ re > s

\* datetime.combine(date, t) made aware in the local zone
\* quarter hours in a day
DayLen == 96
aware_local(d, t) == d * DayLen + t
weekday(d) == d % 7
date_of(dt) == dt \div DayLen

\* ----------------------------------------------------- query helpers
\* FlexAppointment rows of physician p, active, overlapping [s, e), other than pk
FlexOverlapOf(fl, p, s, e, pk) ==
    {i \in DOMAIN fl : /\ i # pk
                       /\ fl[i].physician = p
                       /\ fl[i].status \in ActiveStates
                       /\ Overlaps(fl[i].start, fl[i].end, s, e)}

\* Appointment rows of physician p, active, whose slot overlaps [s, e)
LegacyOverlapOf(ap, sl, p, s, e) ==
    {i \in DOMAIN ap : /\ ap[i].physician = p
                       /\ ap[i].status \in ActiveStates
                       /\ Overlaps(sl[ap[i].slot].start, sl[ap[i].slot].end, s, e)}

\* the same two queries filtered on patient= instead of physician=
PatientFlexOverlap(fl, me, s, e) ==
    \E i \in DOMAIN fl : /\ fl[i].patient = me
                         /\ fl[i].status \in ActiveStates
                         /\ Overlaps(fl[i].start, fl[i].end, s, e)

PatientLegacyOverlap(ap, sl, me, s, e) ==
    \E i \in DOMAIN ap : /\ ap[i].patient = me
                         /\ ap[i].status \in ActiveStates
                         /\ Overlaps(sl[ap[i].slot].start, sl[ap[i].slot].end, s, e)

\* AvailabilitySlot rows of physician p overlapping [s, e), other than pk
SlotOverlapOf(sl, p, s, e, pk) ==
    {i \in DOMAIN sl : /\ i # pk
                       /\ sl[i].physician = p
                       /\ Overlaps(sl[i].start, sl[i].end, s, e)}

\* ------------------------------------------------- AvailabilitySlot
AvailabilitySlot_clean(sl, row, pk) ==
    IF row.start >= row.end THEN "invalid"
    ELSE IF role(row.physician) # "PHYSICIAN" THEN "invalid"
    ELSE IF SlotOverlapOf(sl, row.physician, row.start, row.end, pk) # {} THEN "invalid"
    ELSE "ok"

NewSlot(p, s, e) ==
    [physician |-> p, start |-> s, end |-> e, is_booked |-> FALSE, booked_by_flex |-> NoFlex]

\* ------------------------------------------------- FlexAppointment
\* clean() without its check against other FlexAppointments
FlexAppointment_clean_NoFlexCheck(fl, ap, sl, row, pk) ==
    IF row.end <= row.start THEN "invalid"
    ELSE IF role(row.physician) # "PHYSICIAN" THEN "invalid"
    ELSE IF LegacyOverlapOf(ap, sl, row.physician, row.start, row.end) # {} THEN "conflict"
    ELSE "ok"

FlexAppointment_clean(fl, ap, sl, row, pk) ==
    IF row.end <= row.start THEN "invalid"
    ELSE IF role(row.physician) # "PHYSICIAN" THEN "invalid"
    ELSE IF FlexOverlapOf(fl, row.physician, row.start, row.end, pk) # {} THEN "conflict"
    ELSE IF LegacyOverlapOf(ap, sl, row.physician, row.start, row.end) # {} THEN "conflict"
    ELSE "ok"

\* the UPDATE without booked_by_flex=self
block_overlapping_slots_NoBackref(sl, row, pk) ==
    IF row.status # "CONFIRMED" THEN sl
    ELSE [i \in DOMAIN sl |->
            IF /\ sl[i].physician = row.physician
               /\ sl[i].start < row.end
               /\ sl[i].end > row.start
            THEN [sl[i] EXCEPT !.is_booked = TRUE]
            ELSE sl[i]]

block_overlapping_slots(sl, row, pk) ==
    IF row.status # "CONFIRMED" THEN sl
    ELSE [i \in DOMAIN sl |->
            IF /\ sl[i].physician = row.physician
               /\ sl[i].start < row.end
               /\ sl[i].end > row.start
            THEN [sl[i] EXCEPT !.is_booked = TRUE, !.booked_by_flex = pk]
            ELSE sl[i]]

\* the UPDATE without its filter on this booking: every back-referenced slot
release_blocked_slots_Any(sl, pk) ==
    [i \in DOMAIN sl |->
        IF sl[i].booked_by_flex # NoFlex
        THEN [sl[i] EXCEPT !.is_booked = FALSE, !.booked_by_flex = NoFlex]
        ELSE sl[i]]

\* the UPDATE clearing is_booked but not the back-reference
release_blocked_slots_KeepBackref(sl, pk) ==
    [i \in DOMAIN sl |->
        IF sl[i].booked_by_flex = pk
        THEN [sl[i] EXCEPT !.is_booked = FALSE]
        ELSE sl[i]]

\* the UPDATE clearing the back-reference but not is_booked
release_blocked_slots_KeepFlag(sl, pk) ==
    [i \in DOMAIN sl |->
        IF sl[i].booked_by_flex = pk
        THEN [sl[i] EXCEPT !.booked_by_flex = NoFlex]
        ELSE sl[i]]

release_blocked_slots(sl, pk) ==
    [i \in DOMAIN sl |->
        IF sl[i].booked_by_flex = pk
        THEN [sl[i] EXCEPT !.is_booked = FALSE, !.booked_by_flex = NoFlex]
        ELSE sl[i]]

\* save() without the release on cancellation
FlexSlotEffects_NoRelease(sl, row, pk, old_status) ==
    IF row.status = "CONFIRMED" THEN block_overlapping_slots(sl, row, pk) ELSE sl

\* the slot adjustments save() makes after the row is written
FlexSlotEffects(sl, row, pk, old_status) ==
    LET blocked == IF row.status = "CONFIRMED"
                   THEN block_overlapping_slots(sl, row, pk) ELSE sl
    IN IF old_status # "NONE" /\ old_status # row.status /\ row.status = "CANCELLED"
       THEN release_blocked_slots(blocked, pk)
       ELSE blocked

\* FlexAppointment.save() as one transaction: pk = NoFlex when creating
FlexAppointment_save(fl, ap, sl, row, pk) ==
    LET creating == pk = NoFlex
        old_status == IF creating THEN "NONE" ELSE fl[pk].status
        err == FlexAppointment_clean(fl, ap, sl, row, pk)
        id == IF creating THEN Len(fl) + 1 ELSE pk
    IN IF err # "ok"
       THEN [res |-> err, flex |-> fl, slots |-> sl, id |-> NoFlex]
       ELSE [res |-> "ok",
             flex |-> IF creating THEN Append(fl, row) ELSE [fl EXCEPT ![pk] = row],
             slots |-> FlexSlotEffects(sl, row, id, old_status),
             id |-> id]

\* ------------------------------------------------- Appointment
\* clean() without its check against FlexAppointments
Appointment_clean_NoFlexCheck(fl, so, row, t) ==
    IF so.physician # row.physician THEN "invalid"
    ELSE IF so.is_booked THEN "conflict"
    ELSE IF so.start <= t THEN "past"
    ELSE "ok"

\* clean() reads the slot through the instance's cached slot object `so`
Appointment_clean(fl, so, row, t) ==
    IF so.physician # row.physician THEN "invalid"
    ELSE IF so.is_booked THEN "conflict"
    ELSE IF so.start <= t THEN "past"
    ELSE IF FlexOverlapOf(fl, row.physician, so.start, so.end, NoFlex) # {} THEN "conflict"
    ELSE "ok"

\* slot as a plain ForeignKey: nothing is unique
Appointment_validate_unique_ForeignKey(ap, row, pk) == "ok"

\* OneToOneField: validate_unique() on slot, excluding the row itself
Appointment_validate_unique(ap, row, pk) ==
    IF \E i \in DOMAIN ap : i # pk /\ ap[i].slot = row.slot THEN "conflict" ELSE "ok"

Appointment_full_clean(fl, ap, so, row, pk, t) ==
    LET c == Appointment_clean(fl, so, row, t)
    IN IF c # "ok" THEN c ELSE Appointment_validate_unique(ap, row, pk)

\* the UPDATE that follows the insert of a new Appointment
MarkSlotBooked(sl, sid) ==
    [sl EXCEPT ![sid] = [@ EXCEPT !.is_booked = TRUE, !.booked_by_flex = NoFlex]]

\* Appointment.save(): pk = 0 when creating
Appointment_save(fl, ap, sl, so, row, pk, t) ==
    LET creating == pk = 0
        err == Appointment_full_clean(fl, ap, so, row, pk, t)
    IN IF err # "ok"
       THEN [res |-> err, appts |-> ap, slots |-> sl]
       ELSE [res |-> "ok",
             appts |-> IF creating THEN Append(ap, row) ELSE [ap EXCEPT ![pk] = row],
             slots |-> IF creating THEN MarkSlotBooked(sl, row.slot) ELSE sl]

\* ------------------------------------------------- availability.py
\* .order_by("start_time"): rows with equal start_time in a fixed order
RECURSIVE OrderByStartTime(_)
OrderByStartTime(S) ==
    IF S = {} THEN <<>>
    ELSE LET m == CHOOSE x \in S : \A y \in S : x.start_time <= y.start_time
         IN <<m>> \o OrderByStartTime(S \ {m})

Window(s, e) == [start |-> s, end |-> e, step |-> 15]

RECURSIVE WeeklyWindows(_, _)
WeeklyWindows(rows, d) ==
    IF rows = <<>> THEN <<>>
    ELSE LET w == Head(rows)
             start_dt == aware_local(d, w.start_time)
             end_dt == aware_local(d, w.end_time)
         IN (IF end_dt > start_dt THEN <<Window(start_dt, end_dt)>> ELSE <<>>)
            \o WeeklyWindows(Tail(rows), d)

\* the resolver without its closed-day test
day_windows_for_physician_IgnoreClosed(wk, ov, p, d) ==
    LET override_qs == {o \in ov : o.physician = p /\ o.date = d}
        override_windows == OrderByStartTime({o \in override_qs : ~o.is_closed})
        weekly_qs == OrderByStartTime({w \in wk : /\ w.physician = p
                                                  /\ w.weekday = weekday(d)
                                                  /\ w.is_active})
    IN IF override_windows # <<>>
       THEN [i \in 1..Len(override_windows) |->
                Window(aware_local(d, override_windows[i].start_time),
                       aware_local(d, override_windows[i].end_time))]
       ELSE WeeklyWindows(weekly_qs, d)

\* the resolver adding the weekly windows to the overrides' windows
day_windows_for_physician_Additive(wk, ov, p, d) ==
    LET override_qs == {o \in ov : o.physician = p /\ o.date = d}
        override_windows == OrderByStartTime({o \in override_qs : ~o.is_closed})
        weekly_qs == OrderByStartTime({w \in wk : /\ w.physician = p
                                                  /\ w.weekday = weekday(d)
                                                  /\ w.is_active})
    IN IF \E o \in override_qs : o.is_closed THEN <<>>
       ELSE [i \in 1..Len(override_windows) |->
                Window(aware_local(d, override_windows[i].start_time),
                       aware_local(d, override_windows[i].end_time))]
            \o WeeklyWindows(weekly_qs, d)

day_windows_for_physician(wk, ov, p, d) ==
    LET override_qs == {o \in ov : o.physician = p /\ o.date = d}
        override_windows == OrderByStartTime({o \in override_qs : ~o.is_closed})
        weekly_qs == OrderByStartTime({w \in wk : /\ w.physician = p
                                                  /\ w.weekday = weekday(d)
                                                  /\ w.is_active})
    IN IF \E o \in override_qs : o.is_closed THEN <<>>
       ELSE IF override_windows # <<>>
       THEN [i \in 1..Len(override_windows) |->
                Window(aware_local(d, override_windows[i].start_time),
                       aware_local(d, override_windows[i].end_time))]
       ELSE WeeklyWindows(weekly_qs, d)

\* datetimes carry no seconds here, so base = dt
\* no rounding: the walk starts at the window's own start
round_up_to_step_NoSnap(dt, step_minutes) == dt

round_up_to_step(dt, step_minutes) ==
    LET base == dt
        minutes_from_midnight == base % DayLen
        remainder == minutes_from_midnight % step_minutes
        bump == (step_minutes - remainder) % step_minutes
        snapped == base + bump
    IN IF remainder = 0 /\ base >= dt THEN base
       ELSE IF snapped <= dt THEN snapped + step_minutes
       ELSE snapped

RECURSIVE WalkCandidates(_, _, _)
WalkCandidates(cur, latest_start, slot_minutes) ==
    IF cur <= latest_start
    THEN <<cur>> \o WalkCandidates(cur + slot_minutes, latest_start, slot_minutes)
    ELSE <<>>

\* the walk runs up to the window's end instead of end - slot_minutes
iter_candidates_UpToEnd(win, slot_minutes) ==
    WalkCandidates(round_up_to_step(win.start, slot_minutes), win.end, slot_minutes)

iter_candidates(win, slot_minutes) ==
    WalkCandidates(round_up_to_step(win.start, slot_minutes),
                   win.end - slot_minutes, slot_minutes)

has_conflict(ap, sl, p, start_dt, end_dt) ==
    LegacyOverlapOf(ap, sl, p, start_dt, end_dt) # {}

\* list.sort() of datetimes
RECURSIVE InsertSorted(_, _)
InsertSorted(x, s) ==
    IF s = <<>> THEN <<x>>
    ELSE IF x <= Head(s) THEN <<x>> \o s
    ELSE <<Head(s)>> \o InsertSorted(x, Tail(s))

RECURSIVE sort_list(_)
sort_list(s) == IF s = <<>> THEN <<>> ELSE InsertSorted(Head(s), sort_list(Tail(s)))

RECURSIVE CollectStarts(_, _, _, _, _, _)
CollectStarts(wins, ap, sl, p, slot_minutes, t) ==
    IF wins = <<>> THEN <<>>
    ELSE LET Keep(start) == /\ ~(start < t)
                            /\ ~has_conflict(ap, sl, p, start, start + slot_minutes)
         IN SelectSeq(iter_candidates(Head(wins), slot_minutes), Keep)
            \o CollectStarts(Tail(wins), ap, sl, p, slot_minutes, t)

\* the loop over the windows without the final result.sort()
slots_in_windows_NoSort(wins, ap, sl, p, slot_minutes, t) ==
    CollectStarts(wins, ap, sl, p, slot_minutes, t)

\* get_available_slots once the windows are fetched: the loop, then result.sort()
slots_in_windows(wins, ap, sl, p, slot_minutes, t) ==
    sort_list(CollectStarts(wins, ap, sl, p, slot_minutes, t))

get_available_slots(wk, ov, ap, sl, p, d, slot_minutes, t) ==
    slots_in_windows(day_windows_for_physician(wk, ov, p, d), ap, sl, p, slot_minutes, t)

\* order_by("start_time") fixes no order among rows with equal start_time: the
\* orders in which the database may hand the windows over
WindowOrders(wins) ==
    {w \in [DOMAIN wins -> {wins[i] : i \in DOMAIN wins}] :
        /\ \A i \in DOMAIN wins : \E j \in DOMAIN wins : w[j] = wins[i]
        /\ \A i, j \in DOMAIN wins : i < j => w[i].start <= w[j].start}

Range(s) == {s[i] : i \in DOMAIN s}

\* ------------------------------------------------- calendar feed
\* the rows with primary keys S in the order of Meta.ordering, key[i] being the
\* ordering field of row i; rows with equal keys in a fixed order
RECURSIVE OrderedRows(_, _)
OrderedRows(S, key) ==
    IF S = {} THEN <<>>
    ELSE LET m == CHOOSE x \in S : \A y \in S : key[x] <= key[y]
         IN <<m>> \o OrderedRows(S \ {m}, key)

CalendarEvent(type, s, e) == [type |-> type, start |-> s, end |-> e]

\* utils/calendar.py
get_booked_blocks_for_calendar(fl, ap, sl, p, start, end) ==
    LET legacy == OrderedRows(LegacyOverlapOf(ap, sl, p, start, end),
                              [i \in DOMAIN ap |-> sl[ap[i].slot].start])
        flex_rows == OrderedRows(FlexOverlapOf(fl, p, start, end, NoFlex),
                                 [i \in DOMAIN fl |-> fl[i].start])
        legacy_events == [k \in DOMAIN legacy |->
                             CalendarEvent("BOOKED_LEGACY", sl[ap[legacy[k]].slot].start,
                                           sl[ap[legacy[k]].slot].end)]
        flex_events == [k \in DOMAIN flex_rows |->
                           CalendarEvent("BOOKED_FLEX", fl[flex_rows[k]].start,
                                         fl[flex_rows[k]].end)]
    IN legacy_events \o flex_events

\* available_events[key] = ... unless the key (start, end) is there already
RECURSIVE AddEvents(_, _)
AddEvents(evs, new) ==
    IF new = <<>> THEN evs
    ELSE LET ev == Head(new)
             known == \E i \in DOMAIN evs : evs[i].start = ev.start /\ evs[i].end = ev.end
         IN AddEvents(IF known THEN evs ELSE Append(evs, ev), Tail(new))

\* CalendarEventsView.get, part A: the computed starts of each date cur..stop
RECURSIVE ComputedEvents(_, _, _, _, _, _, _, _, _, _, _)
ComputedEvents(cur, stop, wk, ov, ap, sl, p, start, end, duration, t) ==
    IF cur > stop THEN <<>>
    ELSE LET starts == get_available_slots(wk, ov, ap, sl, p, cur, duration, t)
             InRange(s) == s < end /\ s + duration > start
             kept == SelectSeq(starts, InRange)
         IN [k \in DOMAIN kept |-> CalendarEvent("AVAILABLE", kept[k], kept[k] + duration)]
            \o ComputedEvents(cur + 1, stop, wk, ov, ap, sl, p, start, end, duration, t)

\* CalendarEventsView.get: the green entries (computed, then slot rows), then the
\* red ones
calendar_events(wk, ov, fl, ap, sl, p, start, end, duration, t) ==
    LET booked == get_booked_blocks_for_calendar(fl, ap, sl, p, start, end)
        computed == ComputedEvents(date_of(start), date_of(end), wk, ov, ap, sl, p,
                                   start, end, duration, t)
        legacy_slots == OrderedRows({i \in DOMAIN sl : /\ sl[i].physician = p
                                                       /\ ~sl[i].is_booked
                                                       /\ sl[i].start < end
                                                       /\ sl[i].end > start},
                                    [i \in DOMAIN sl |-> sl[i].start])
        rows == [k \in DOMAIN legacy_slots |->
                    CalendarEvent("AVAILABLE_ROW", sl[legacy_slots[k]].start,
                                  sl[legacy_slots[k]].end)]
    IN AddEvents(AddEvents(<<>>, computed), rows) \o booked

\* ------------------------------------------------- booking handlers
NewFlex(p, me, s, e) ==
    [physician |-> p, patient |-> me, start |-> s, end |-> e, status |-> "CONFIRMED"]

NewAppointment(sid, p, me) ==
    [slot |-> sid, physician |-> p, patient |-> me, status |-> "CONFIRMED"]

\* create_appointment, fixed mode: the checks made before the Appointment is created
FixedViewChecks(fl, ap, sl, sid, me, t) ==
    LET slot == sl[sid]
    IN IF slot.is_booked THEN "conflict"
       ELSE IF slot.start <= t THEN "past"
       ELSE IF is_physician(me) THEN "forbidden"
       ELSE IF \/ PatientLegacyOverlap(ap, sl, me, slot.start, slot.end)
               \/ PatientFlexOverlap(fl, me, slot.start, slot.end) THEN "conflict"
       ELSE "ok"

\* slot.is_booked = True; slot.save(update_fields=["is_booked"]) on the view's object `so`
SlotSaveBooked(sl, so, sid) ==
    LET err == AvailabilitySlot_clean(sl, so, sid)
    IN IF err # "ok" THEN [res |-> "error", slots |-> sl]
       ELSE [res |-> "ok", slots |-> [sl EXCEPT ![sid] = [@ EXCEPT !.is_booked = TRUE]]]

create_appointment_fixed(fl, ap, sl, sid, me, t) ==
    LET slot == sl[sid]
        pre == FixedViewChecks(fl, ap, sl, sid, me, t)
        sv == Appointment_save(fl, ap, sl, slot, NewAppointment(sid, slot.physician, me), 0, t)
        ss == SlotSaveBooked(sv.slots, slot, sid)
    IN IF pre # "ok" THEN [res |-> pre, appts |-> ap, slots |-> sl]
       ELSE IF sv.res # "ok" THEN [res |-> sv.res, appts |-> ap, slots |-> sl]
       ELSE [res |-> ss.res, appts |-> sv.appts, slots |-> ss.slots]

\* the checks without the test of end_dt against now
FlexViewChecks_NoPastCheck(fl, ap, sl, p, me, start_dt, end_dt, t) ==
    IF is_physician(me) THEN "forbidden"
    ELSE IF \/ PatientLegacyOverlap(ap, sl, me, start_dt, end_dt)
            \/ PatientFlexOverlap(fl, me, start_dt, end_dt) THEN "conflict"
    ELSE IF \/ LegacyOverlapOf(ap, sl, p, start_dt, end_dt) # {}
            \/ FlexOverlapOf(fl, p, start_dt, end_dt, NoFlex) # {} THEN "conflict"
    ELSE "ok"

\* create_appointment, flex mode: the checks made before the FlexAppointment is created
FlexViewChecks(fl, ap, sl, p, me, start_dt, end_dt, t) ==
    IF end_dt <= t THEN "past"
    ELSE IF is_physician(me) THEN "forbidden"
    ELSE IF \/ PatientLegacyOverlap(ap, sl, me, start_dt, end_dt)
            \/ PatientFlexOverlap(fl, me, start_dt, end_dt) THEN "conflict"
    ELSE IF \/ LegacyOverlapOf(ap, sl, p, start_dt, end_dt) # {}
            \/ FlexOverlapOf(fl, p, start_dt, end_dt, NoFlex) # {} THEN "conflict"
    ELSE "ok"

\* AvailabilitySlot...filter(overlap).update(is_booked=True) at the end of the view
ViewBlockSlots(sl, p, start_dt, end_dt) ==
    [i \in DOMAIN sl |->
        IF sl[i].physician = p /\ sl[i].start < end_dt /\ sl[i].end > start_dt
        THEN [sl[i] EXCEPT !.is_booked = TRUE]
        ELSE sl[i]]

create_appointment_flex(fl, ap, sl, p, me, start_dt, duration_min, t) ==
    LET end_dt == start_dt + duration_min
        pre == FlexViewChecks(fl, ap, sl, p, me, start_dt, end_dt, t)
        sv == FlexAppointment_save(fl, ap, sl, NewFlex(p, me, start_dt, end_dt), NoFlex)
    IN IF pre # "ok" THEN [res |-> pre, flex |-> fl, slots |-> sl]
       ELSE IF sv.res # "ok" THEN [res |-> sv.res, flex |-> fl, slots |-> sl]
       ELSE [res |-> "ok", flex |-> sv.flex,
             slots |-> ViewBlockSlots(sv.slots, p, start_dt, end_dt)]

\* FlexAppointmentCreateSerializer.validate
serializer_validate(wk, ov, ap, sl, p, start, duration, t) ==
    LET start_local == start
        end_local == start_local + duration
        available_starts ==
            get_available_slots(wk, ov, ap, sl, p, date_of(start_local), duration, t)
    IN IF end_local <= t THEN "past"
       ELSE IF available_starts = <<>> THEN "invalid"
       ELSE IF start_local \notin Range(available_starts) THEN "invalid"
       ELSE "ok"

\* FlexAppointmentCreateSerializer: is_valid() then save()
serializer_create(wk, ov, fl, ap, sl, p, me, start, duration, t) ==
    LET v == serializer_validate(wk, ov, ap, sl, p, start, duration, t)
        sv == FlexAppointment_save(fl, ap, sl, NewFlex(p, me, start, start + duration), NoFlex)
    IN IF v # "ok" THEN [res |-> v, flex |-> fl, slots |-> sl]
       ELSE [res |-> sv.res, flex |-> sv.flex, slots |-> sv.slots]

\* ------------------------------------------------- slot creation handlers
\* PhysicianSlotsView.post
physician_slots_post(fl, ap, sl, p, start, end) ==
    LET row == NewSlot(p, start, end)
        err == AvailabilitySlot_clean(sl, row, 0)
    IN IF end <= start THEN [res |-> "invalid", slots |-> sl]
       ELSE IF \/ LegacyOverlapOf(ap, sl, p, start, end) # {}
               \/ FlexOverlapOf(fl, p, start, end, NoFlex) # {}
               \/ SlotOverlapOf(sl, p, start, end, 0) # {}
       THEN [res |-> "conflict", slots |-> sl]
       ELSE IF err # "ok" THEN [res |-> "error", slots |-> sl]
       ELSE [res |-> "ok", slots |-> Append(sl, row)]

\* the loop body without the test that skips past slices
SliceStep_KeepPast(acc, s, e, p, fl, ap, t) ==
    LET conflicts_with_booked ==
            \/ FlexOverlapOf(fl, p, s, e, NoFlex) # {}
            \/ LegacyOverlapOf(ap, acc.base, p, s, e) # {}
        exists == SlotOverlapOf(acc.slots, p, s, e, 0) # {}
        err == AvailabilitySlot_clean(acc.slots, NewSlot(p, s, e), 0)
    IN IF conflicts_with_booked \/ exists THEN acc
       ELSE IF err # "ok" THEN [acc EXCEPT !.res = "error"]
       ELSE [acc EXCEPT !.slots = Append(@, NewSlot(p, s, e)), !.created = @ + 1]

\* add_availability_window: one pass of the slicing loop for the slice [s, e);
\* acc = [res, slots, base, created]
SliceStep(acc, s, e, p, fl, ap, t) ==
    LET \* the booked blocks were fetched before the loop, against the slots as
        \* they were then; slots created by the loop carry no Appointment
        conflicts_with_booked ==
            \/ FlexOverlapOf(fl, p, s, e, NoFlex) # {}
            \/ LegacyOverlapOf(ap, acc.base, p, s, e) # {}
        exists == SlotOverlapOf(acc.slots, p, s, e, 0) # {}
        err == AvailabilitySlot_clean(acc.slots, NewSlot(p, s, e), 0)
    IN IF e <= t \/ conflicts_with_booked \/ exists THEN acc
       ELSE IF err # "ok" THEN [acc EXCEPT !.res = "error"]
       ELSE [acc EXCEPT !.slots = Append(@, NewSlot(p, s, e)), !.created = @ + 1]

\* add_availability_window: the slicing loop
RECURSIVE SliceWindow(_, _, _, _, _, _, _, _)
SliceWindow(cur, end_dt, step, p, fl, ap, t, acc) ==
    IF ~(cur + step <= end_dt) \/ acc.res # "ok" THEN acc
    ELSE SliceWindow(cur + step, end_dt, step, p, fl, ap, t,
                     SliceStep(acc, cur, cur + step, p, fl, ap, t))

NewOverride(p, d, s, e) ==
    [physician |-> p, date |-> d, is_closed |-> FALSE, start_time |-> s, end_time |-> e]

add_availability_window(fl, ap, sl, ov, p, start_dt, end_dt, step_minutes, t) ==
    LET sliced == SliceWindow(start_dt, end_dt, step_minutes, p, fl, ap, t,
                              [res |-> "ok", slots |-> sl, base |-> sl, created |-> 0])
        o == NewOverride(p, date_of(start_dt), start_dt % DayLen, end_dt % DayLen)
    IN IF end_dt <= start_dt THEN [res |-> "invalid", slots |-> sl, overrides |-> ov, created |-> 0]
       ELSE IF date_of(start_dt) # date_of(end_dt)
       THEN [res |-> "invalid", slots |-> sl, overrides |-> ov, created |-> 0]
       ELSE IF step_minutes <= 0
       THEN [res |-> "invalid", slots |-> sl, overrides |-> ov, created |-> 0]
       ELSE IF sliced.res # "ok"
       THEN [res |-> "error", slots |-> sl, overrides |-> ov, created |-> 0]
       ELSE [res |-> "ok", slots |-> sliced.slots, overrides |-> ov \cup {o},
             created |-> sliced.created]

\* the loop body with created += 1 outside the test
GenerateStep_CountsSkipped(acc, p, start_dt, end_dt) ==
    LET exists == SlotOverlapOf(acc.slots, p, start_dt, end_dt, 0) # {}
        err == AvailabilitySlot_clean(acc.slots, NewSlot(p, start_dt, end_dt), 0)
    IN IF exists THEN [acc EXCEPT !.created = @ + 1]
       ELSE IF err # "ok" THEN [acc EXCEPT !.res = "error"]
       ELSE [acc EXCEPT !.slots = Append(@, NewSlot(p, start_dt, end_dt)),
                        !.created = @ + 1]

\* generate_slots_for_physician: one pass of the inner loop for [start_dt, end_dt);
\* acc = [res, slots, created]
GenerateStep(acc, p, start_dt, end_dt) ==
    LET exists == SlotOverlapOf(acc.slots, p, start_dt, end_dt, 0) # {}
        err == AvailabilitySlot_clean(acc.slots, NewSlot(p, start_dt, end_dt), 0)
    IN IF exists THEN acc
       ELSE IF err # "ok" THEN [acc EXCEPT !.res = "error"]
       ELSE [acc EXCEPT !.slots = Append(@, NewSlot(p, start_dt, end_dt)),
                        !.created = @ + 1]

\* generate_slots_for_physician for one day d
RECURSIVE GenerateTimes(_, _, _, _)
GenerateTimes(times, p, d, acc) ==
    IF times = <<>> \/ acc.res # "ok" THEN acc
    ELSE GenerateTimes(Tail(times), p, d,
                       GenerateStep(acc, p, aware_local(d, Head(times)[1]),
                                    aware_local(d, Head(times)[2])))

generate_slots_for_physician(sl, p, d, weekdays, times) ==
    LET g == IF weekday(d) \in weekdays
             THEN GenerateTimes(times, p, d, [res |-> "ok", slots |-> sl, created |-> 0])
             ELSE [res |-> "ok", slots |-> sl, created |-> 0]
    IN IF g.res # "ok" THEN [res |-> "error", slots |-> sl, created |-> 0] ELSE g

\* ------------------------------------------------- state machine
Requests == {1, 2}
NoReq == [kind |-> "none"]
NoAnswer == [kind |-> "none"]

WeeklyWindow(p, wd, s, e) ==
    [physician |-> p, weekday |-> wd, start_time |-> s, end_time |-> e, is_active |-> TRUE]

\* weekly templates a provider has stored before the bookings start
WeeklyConfigs == {{WeeklyWindow("dr1", 0, 0, MaxTime)}}

\* the (start, end) time pairs a batch generation run is given
GenerateTimeLists == {<<<<0, 2>>, <<2, 3>>>>, <<<<1, 2>>>>}

Init ==
    /\ now = 0
    /\ slots = <<>>
    /\ appts = <<>>
    /\ flex = <<>>
    /\ weekly \in WeeklyConfigs
    /\ overrides = {}
    /\ pc = [r \in Requests |-> "idle"]
    /\ req = [r \in Requests |-> NoReq]
    /\ timeoff = {}
    /\ answer = NoAnswer

Tick ==
    /\ now < MaxNow
    /\ now' = now + 1
    /\ UNCHANGED <<dbvars, concvars, availvars>>

CreateSlot(p, s, e) ==
    /\ Len(slots) < MaxSlots
    /\ LET r == physician_slots_post(flex, appts, slots, p, s, e)
       IN /\ slots' = r.slots
    /\ UNCHANGED <<now, appts, flex, weekly, overrides, concvars, availvars>>

AddAvailabilityWindow(p, s, e, step) ==
    LET r == add_availability_window(flex, appts, slots, overrides, p, s, e, step, now)
    IN /\ Len(r.slots) <= MaxSlots
       /\ slots' = r.slots
       /\ overrides' = r.overrides
       /\ UNCHANGED <<now, appts, flex, weekly, concvars, availvars>>

GenerateSlots(p, times) ==
    LET r == generate_slots_for_physician(slots, p, 0, {0, 1, 2, 3, 4}, times)
    IN /\ Len(r.slots) <= MaxSlots
       /\ slots' = r.slots
       /\ UNCHANGED <<now, appts, flex, weekly, overrides, concvars, availvars>>

BookFixed(sid, me) ==
    /\ sid \in DOMAIN slots
    /\ LET r == create_appointment_fixed(flex, appts, slots, sid, me, now)
       IN /\ appts' = r.appts
          /\ slots' = r.slots
    /\ UNCHANGED <<now, flex, weekly, overrides, concvars, availvars>>

BookFlexible(p, me, s, d) ==
    /\ Len(flex) < MaxFlex
    /\ LET r == create_appointment_flex(flex, appts, slots, p, me, s, d, now)
       IN /\ flex' = r.flex
          /\ slots' = r.slots
    /\ UNCHANGED <<now, appts, weekly, overrides, concvars, availvars>>

BookFlexibleApi(p, me, s, d) ==
    /\ Len(flex) < MaxFlex
    /\ LET r == serializer_create(weekly, overrides, flex, appts, slots, p, me, s, d, now)
       IN /\ flex' = r.flex
          /\ slots' = r.slots
    /\ UNCHANGED <<now, appts, weekly, overrides, concvars, availvars>>

\* obj = FlexAppointment.objects.get(pk=id); obj.status = st; obj.save()
SetFlexStatus(id, st) ==
    /\ id \in DOMAIN flex
    /\ LET r == FlexAppointment_save(flex, appts, slots, [flex[id] EXCEPT !.status = st], id)
       IN /\ flex' = r.flex
          /\ slots' = r.slots
    /\ UNCHANGED <<now, appts, weekly, overrides, concvars, availvars>>

\* obj = Appointment.objects.get(pk=id); obj.status = st; obj.save()
SetFixedStatus(id, st) ==
    /\ id \in DOMAIN appts
    /\ LET r == Appointment_save(flex, appts, slots, slots[appts[id].slot],
                                 [appts[id] EXCEPT !.status = st], id, now)
       IN /\ appts' = r.appts
          /\ slots' = r.slots
    /\ UNCHANGED <<now, flex, weekly, overrides, concvars, availvars>>

\* the admin's "add appointment" form: slot, physician, patient and status are the
\* form's fields; ModelForm validation and then Appointment.save()
AdminAddAppointment(sid, p, me, st) ==
    /\ sid \in DOMAIN slots
    /\ LET row == [slot |-> sid, physician |-> p, patient |-> me, status |-> st]
           r == Appointment_save(flex, appts, slots, slots[sid], row, 0, now)
       IN /\ appts' = r.appts
          /\ slots' = r.slots
    /\ UNCHANGED <<now, flex, weekly, overrides, concvars, availvars>>

Next ==
    \/ Tick
    \/ \E p \in OnCall, s \in Times, d \in Durations :
          s + d <= MaxTime /\ CreateSlot(p, s, s + d)
    \/ \E p \in OnCall, step \in Durations : AddAvailabilityWindow(p, 1, 3, step)
    \/ \E p \in OnCall, times \in GenerateTimeLists : GenerateSlots(p, times)
    \/ \E sid \in 1..MaxSlots, me \in Patients : BookFixed(sid, me)
    \/ \E p \in OnCall, me \in Patients, s \in Times, d \in Durations :
          s + d <= MaxTime /\ BookFlexible(p, me, s, d)
    \/ \E p \in OnCall, me \in Patients, s \in Times, d \in Durations :
          s + d <= MaxTime /\ BookFlexibleApi(p, me, s, d)
    \/ \E id \in 1..MaxFlex, st \in Statuses : SetFlexStatus(id, st)
    \/ \E id \in 1..MaxSlots, st \in Statuses : SetFixedStatus(id, st)

Spec == Init /\ [][Next]_vars

\* ------------------------------------------------- concurrent request handlers
\* Two booking requests run as separate handlers.  Each database statement (or
\* group of reads) is one step; the statements of FlexAppointment.save() are one
\* transaction whose writes become visible together at COMMIT.  The code takes no
\* lock of its own: select_for_update() runs only for a row that already exists.
\* Statements outside a transaction (the view's checks, Appointment.save()) run
\* in autocommit mode.

\* The handlers below only append booking rows, change the status of a
\* FlexAppointment and change slot flags, so the row counts, the statuses and the
\* flags tell whether the tables are as they were.
Db == [appts |-> Len(appts), flex |-> Len(flex),
       status |-> [i \in DOMAIN flex |-> flex[i].status],
       flags |-> [i \in DOMAIN slots |-> <<slots[i].is_booked, slots[i].booked_by_flex>>]]

\* the tables when the two requests arrive: one free slot, or the same slot held
\* by a confirmed FlexAppointment
ConcFixtures ==
    {[slots |-> <<NewSlot("dr1", 1, 3)>>, flex |-> <<>>],
     [slots |-> block_overlapping_slots(<<NewSlot("dr1", 1, 3)>>, NewFlex("dr1", "pt2", 1, 2), 1),
      flex |-> <<NewFlex("dr1", "pt2", 1, 2)>>]}

InitConc ==
    /\ now = 0
    /\ \E f \in ConcFixtures : slots = f.slots /\ flex = f.flex
    /\ appts = <<>>
    /\ weekly \in WeeklyConfigs
    /\ overrides = {}
    /\ pc = [r \in Requests |-> "idle"]
    /\ req = [r \in Requests |-> NoReq]
    /\ timeoff = {}
    /\ answer = NoAnswer

Finish(r, res) ==
    /\ pc' = [pc EXCEPT ![r] = "done"]
    /\ req' = [req EXCEPT ![r].res = res]

Goto(r, label) ==
    /\ pc' = [pc EXCEPT ![r] = label]
    /\ UNCHANGED req

\* create_appointment, fixed mode: fetch the slot and run the view's checks
FixedView(r, sid, me) ==
    /\ pc[r] = "idle"
    /\ sid \in DOMAIN slots
    /\ LET pre == FixedViewChecks(flex, appts, slots, sid, me, now)
           rq == [kind |-> "fixed", me |-> me, physician |-> slots[sid].physician,
                  sid |-> sid, slot |-> slots[sid],
                  start |-> slots[sid].start, end |-> slots[sid].end,
                  pre |-> Db, seen |-> Db, wrote |-> 0,
                  res |-> IF pre = "ok" THEN "none" ELSE pre]
       IN /\ req' = [req EXCEPT ![r] = rq]
          /\ pc' = [pc EXCEPT ![r] = IF pre = "ok" THEN "fx_clean" ELSE "done"]
    /\ UNCHANGED <<now, dbvars, availvars>>

\* Appointment.save(): full_clean() against the cached slot object
FixedClean(r) ==
    /\ pc[r] = "fx_clean"
    /\ LET err == Appointment_full_clean(flex, appts, req[r].slot,
                      NewAppointment(req[r].sid, req[r].physician, req[r].me), 0, now)
       IN IF err = "ok" THEN Goto(r, "fx_insert") ELSE Finish(r, err)
    /\ UNCHANGED <<now, dbvars, availvars>>

\* Appointment.save(): the INSERT, under the unique index of the one-to-one slot
FixedInsert(r) ==
    /\ pc[r] = "fx_insert"
    /\ IF \E i \in DOMAIN appts : appts[i].slot = req[r].sid
       THEN /\ Finish(r, "dberror")
            /\ UNCHANGED appts
       ELSE /\ appts' = Append(appts, NewAppointment(req[r].sid, req[r].physician, req[r].me))
            /\ pc' = [pc EXCEPT ![r] = "fx_mark"]
            /\ req' = [req EXCEPT ![r].wrote = Len(appts) + 1]
    /\ UNCHANGED <<now, slots, flex, weekly, overrides, availvars>>

\* Appointment.save(): the UPDATE of the slot after the INSERT
FixedMark(r) ==
    /\ pc[r] = "fx_mark"
    /\ slots' = MarkSlotBooked(slots, req[r].sid)
    /\ Goto(r, "fx_viewsave")
    /\ UNCHANGED <<now, appts, flex, weekly, overrides, availvars>>

\* create_appointment, fixed mode: slot.save(update_fields=["is_booked"])
FixedViewSave(r) ==
    /\ pc[r] = "fx_viewsave"
    /\ LET ss == SlotSaveBooked(slots, req[r].slot, req[r].sid)
       IN /\ slots' = ss.slots
          /\ Finish(r, ss.res)
    /\ UNCHANGED <<now, appts, flex, weekly, overrides, availvars>>

\* create_appointment, flex mode: the view's checks
FlexView(r, p, me, s, d) ==
    /\ pc[r] = "idle"
    /\ LET pre == FlexViewChecks(flex, appts, slots, p, me, s, s + d, now)
           rq == [kind |-> "flex", me |-> me, physician |-> p,
                  sid |-> 0,
                  start |-> s, end |-> s + d,
                  pre |-> Db, seen |-> Db, wrote |-> 0,
                  res |-> IF pre = "ok" THEN "none" ELSE pre]
       IN /\ req' = [req EXCEPT ![r] = rq]
          /\ pc' = [pc EXCEPT ![r] = IF pre = "ok" THEN "fl_clean" ELSE "done"]
    /\ UNCHANGED <<now, dbvars, availvars>>

\* FlexAppointment.save(): BEGIN, then full_clean() reads the committed state
FlexClean(r) ==
    /\ pc[r] = "fl_clean"
    /\ LET err == FlexAppointment_clean(flex, appts, slots,
                      NewFlex(req[r].physician, req[r].me, req[r].start, req[r].end), NoFlex)
       IN IF err = "ok"
          THEN /\ pc' = [pc EXCEPT ![r] = "fl_commit"]
               /\ req' = [req EXCEPT ![r].seen = Db]
          ELSE Finish(r, err)
    /\ UNCHANGED <<now, dbvars, availvars>>

\* FlexAppointment.save(): INSERT, the slot UPDATE and COMMIT.  The database is
\* SQLite (settings.DATABASES): the transaction holds its read lock from
\* full_clean() on, so its write goes through only if nothing was written by
\* another connection since it read.
FlexCommit(r) ==
    /\ pc[r] = "fl_commit"
    /\ req[r].seen = Db
    /\ LET row == NewFlex(req[r].physician, req[r].me, req[r].start, req[r].end)
           id == Len(flex) + 1
       IN /\ flex' = Append(flex, row)
          /\ slots' = FlexSlotEffects(slots, row, id, "NONE")
          /\ pc' = [pc EXCEPT ![r] = "fl_viewblock"]
          /\ req' = [req EXCEPT ![r].wrote = id]
    /\ UNCHANGED <<now, appts, weekly, overrides, availvars>>

\* SQLite refuses the write of a transaction whose reads another connection's
\* write has overtaken: OperationalError "database is locked", and the
\* transaction is rolled back.
FlexWriteRefused(r) ==
    /\ pc[r] = "fl_commit"
    /\ req[r].seen # Db
    /\ Finish(r, "dberror")
    /\ UNCHANGED <<now, dbvars, availvars>>

\* create_appointment, flex mode: the view's own UPDATE of the overlapping slots
FlexViewBlock(r) ==
    /\ pc[r] = "fl_viewblock"
    /\ slots' = ViewBlockSlots(slots, req[r].physician, req[r].start, req[r].end)
    /\ Finish(r, "ok")
    /\ UNCHANGED <<now, appts, flex, weekly, overrides, availvars>>

\* FlexAppointmentAdmin change form: load the row, set status, validate the form
CancelView(r, id, st) ==
    /\ pc[r] = "idle"
    /\ id \in DOMAIN flex
    /\ LET row == [flex[id] EXCEPT !.status = st]
           pre == FlexAppointment_clean(flex, appts, slots, row, id)
           rq == [kind |-> "status", me |-> row.patient, physician |-> row.physician,
                  sid |-> id,
                  start |-> row.start, end |-> row.end, status |-> st,
                  old_status |-> flex[id].status,
                  pre |-> Db, seen |-> Db, wrote |-> 0,
                  res |-> IF pre = "ok" THEN "none" ELSE pre]
       IN /\ req' = [req EXCEPT ![r] = rq]
          /\ pc' = [pc EXCEPT ![r] = IF pre = "ok" THEN "st_clean" ELSE "done"]
    /\ UNCHANGED <<now, dbvars, availvars>>

\* FlexAppointment.save() of an existing row: BEGIN, select_for_update().get(),
\* full_clean()
CancelClean(r) ==
    /\ pc[r] = "st_clean"
    /\ LET id == req[r].sid
           row == [flex[id] EXCEPT !.status = req[r].status]
           err == FlexAppointment_clean(flex, appts, slots, row, id)
       IN IF err = "ok"
          THEN /\ pc' = [pc EXCEPT ![r] = "st_commit"]
               /\ req' = [req EXCEPT ![r].seen = Db, ![r].old_status = flex[id].status]
          ELSE Finish(r, err)
    /\ UNCHANGED <<now, dbvars, availvars>>

\* FlexAppointment.save() of an existing row: UPDATE, the slot adjustments, COMMIT
CancelCommit(r) ==
    /\ pc[r] = "st_commit"
    /\ req[r].seen = Db
    /\ LET id == req[r].sid
           row == [flex[id] EXCEPT !.status = req[r].status]
       IN /\ flex' = [flex EXCEPT ![id] = row]
          /\ slots' = FlexSlotEffects(slots, row, id, req[r].old_status)
    /\ Finish(r, "ok")
    /\ UNCHANGED <<now, appts, weekly, overrides, availvars>>

CancelRefused(r) ==
    /\ pc[r] = "st_commit"
    /\ req[r].seen # Db
    /\ Finish(r, "dberror")
    /\ UNCHANGED <<now, dbvars, availvars>>

\* A statement fails (storage error, lock timeout): the handler ends with an
\* error; what autocommit statements and committed transactions wrote stays.
StatementFails(r) ==
    /\ pc[r] \in {"fx_insert", "fx_mark", "fx_viewsave", "fl_commit", "fl_viewblock",
                 "st_commit"}
    /\ Finish(r, "error")
    /\ UNCHANGED <<now, dbvars, availvars>>

NextConc ==
    \/ Tick
    \/ \E r \in Requests, sid \in 1..MaxSlots, me \in Patients : FixedView(r, sid, me)
    \/ \E r \in Requests : FixedClean(r)
    \/ \E r \in Requests : FixedInsert(r)
    \/ \E r \in Requests : FixedMark(r)
    \/ \E r \in Requests : FixedViewSave(r)
    \/ \E r \in Requests, p \in OnCall, me \in Patients, s \in Times, d \in Durations :
          s + d <= MaxTime /\ FlexView(r, p, me, s, d)
    \/ \E r \in Requests : FlexClean(r)
    \/ \E r \in Requests : FlexCommit(r)
    \/ \E r \in Requests : FlexWriteRefused(r)
    \/ \E r \in Requests : FlexViewBlock(r)
    \/ \E r \in Requests, id \in 1..MaxFlex, st \in Statuses : CancelView(r, id, st)
    \/ \E r \in Requests : CancelClean(r)
    \/ \E r \in Requests : CancelCommit(r)
    \/ \E r \in Requests : CancelRefused(r)
    \/ \E r \in Requests : StatementFails(r)

SpecConc == InitConc /\ [][NextConc]_vars

\* ------------------------------------------------- concurrent slot creation
\* Two PhysicianSlotsView.post requests run as separate handlers; the view opens no
\* transaction, so its reads, the reads of full_clean() and the INSERT are
\* separate statements in autocommit mode.

\* PhysicianSlotsView.post: the three overlap queries of the view
SlotPostView(r, p, s, e) ==
    /\ pc[r] = "idle"
    /\ LET clash == \/ LegacyOverlapOf(appts, slots, p, s, e) # {}
                    \/ FlexOverlapOf(flex, p, s, e, NoFlex) # {}
                    \/ SlotOverlapOf(slots, p, s, e, 0) # {}
           bad == e <= s
           rq == [kind |-> "slot", physician |-> p, start |-> s, end |-> e,
                  wrote |-> 0,
                  res |-> IF bad THEN "invalid" ELSE IF clash THEN "conflict" ELSE "none"]
       IN /\ req' = [req EXCEPT ![r] = rq]
          /\ pc' = [pc EXCEPT ![r] = IF bad \/ clash THEN "done" ELSE "sl_clean"]
    /\ UNCHANGED <<now, dbvars, availvars>>

\* AvailabilitySlot.objects.create -> save(): full_clean()
SlotPostClean(r) ==
    /\ pc[r] = "sl_clean"
    /\ LET err == AvailabilitySlot_clean(slots,
                      NewSlot(req[r].physician, req[r].start, req[r].end), 0)
       IN IF err = "ok" THEN Goto(r, "sl_insert") ELSE Finish(r, "error")
    /\ UNCHANGED <<now, dbvars, availvars>>

\* AvailabilitySlot.objects.create -> save(): the INSERT; no index or constraint
\* of the table looks at the interval
SlotPostInsert(r) ==
    /\ pc[r] = "sl_insert"
    /\ Len(slots) < MaxSlots
    /\ slots' = Append(slots, NewSlot(req[r].physician, req[r].start, req[r].end))
    /\ pc' = [pc EXCEPT ![r] = "done"]
    /\ req' = [req EXCEPT ![r].wrote = Len(slots) + 1, ![r].res = "ok"]
    /\ UNCHANGED <<now, appts, flex, weekly, overrides, availvars>>

InitSlots == Init

NextSlots ==
    \/ Tick
    \/ \E r \in Requests, p \in OnCall, s \in Times, d \in Durations :
          s + d <= MaxTime /\ SlotPostView(r, p, s, s + d)
    \/ \E r \in Requests : SlotPostClean(r)
    \/ \E r \in Requests : SlotPostInsert(r)

SpecSlots == InitSlots /\ [][NextSlots]_vars

\* ------------------------------------------------- clients and providers
\* Bookings by every kind of user with two providers: each provider has one free
\* slot and a weekly window over the whole day.
InitClients ==
    /\ now = 0
    /\ slots = <<NewSlot("dr1", 1, 2), NewSlot("dr2", 1, 3)>>
    /\ appts = <<>>
    /\ flex = <<>>
    /\ weekly = {WeeklyWindow(p, 0, 0, MaxTime) : p \in Physicians}
    /\ overrides = {}
    /\ pc = [r \in Requests |-> "idle"]
    /\ req = [r \in Requests |-> NoReq]
    /\ timeoff = {}
    /\ answer = NoAnswer

NextClients ==
    \/ \E sid \in 1..MaxSlots, me \in Users : BookFixed(sid, me)
    \/ \E p \in Users, me \in Users, s \in Times, d \in Durations :
          s + d <= MaxTime /\ BookFlexible(p, me, s, d)
    \/ \E p \in Users, me \in Users, s \in Times, d \in Durations :
          s + d <= MaxTime /\ BookFlexibleApi(p, me, s, d)
    \/ \E id \in 1..MaxFlex, st \in Statuses : SetFlexStatus(id, st)

SpecClients == InitClients /\ [][NextClients]_vars

\* ------------------------------------------------- bookings kept in the admin
\* Bookings made by patients and bookings added and edited in the admin site,
\* for a provider with one free slot.
InitAdmin ==
    /\ now = 0
    /\ slots = <<NewSlot("dr1", 1, 3)>>
    /\ appts = <<>>
    /\ flex = <<>>
    /\ weekly \in WeeklyConfigs
    /\ overrides = {}
    /\ pc = [r \in Requests |-> "idle"]
    /\ req = [r \in Requests |-> NoReq]
    /\ timeoff = {}
    /\ answer = NoAnswer

NextAdmin ==
    \/ Tick
    \/ \E sid \in 1..MaxSlots, me \in Patients : BookFixed(sid, me)
    \/ \E p \in OnCall, me \in Patients, s \in Times, d \in Durations :
          s + d <= MaxTime /\ BookFlexible(p, me, s, d)
    \/ \E id \in 1..MaxFlex, st \in Statuses : SetFlexStatus(id, st)
    \/ \E sid \in 1..MaxSlots, p \in Physicians, me \in Patients, st \in Statuses :
          AdminAddAppointment(sid, p, me, st)
    \/ \E id \in 1..MaxSlots, st \in Statuses : SetFixedStatus(id, st)

SpecAdmin == InitAdmin /\ [][NextAdmin]_vars

\* ------------------------------------------------- availability queries
\* The stored configuration of a provider is drawn from the rows the admin forms
\* accept (clean(): start_time < end_time, unique_together by construction of a
\* set); the queries are then answered against it.

\* (start_time, end_time) pairs of the stored rows: equal starts, overlaps, and
\* the window 09:00-17:00
AvailIntervals == {<<0, 2>>, <<0, 3>>, <<1, 3>>, <<36, 68>>}

WeeklyRows ==
    {[physician |-> p, weekday |-> wd, start_time |-> iv[1], end_time |-> iv[2],
      is_active |-> a] :
        p \in OnCall, wd \in {0, 1}, iv \in AvailIntervals, a \in BOOLEAN}

OverrideRows ==
    {NewOverride(p, 0, iv[1], iv[2]) : p \in OnCall, iv \in AvailIntervals}
    \cup {[physician |-> p, date |-> d, is_closed |-> TRUE,
            start_time |-> 0, end_time |-> 0] : p \in OnCall, d \in {0, 1}}

TimeOffRows ==
    {[physician |-> p, start |-> aware_local(0, iv[1]), end |-> aware_local(0, iv[2])] :
        p \in OnCall, iv \in AvailIntervals}

AtMost(S, n) == {x \in SUBSET S : Cardinality(x) <= n}

InitAvail ==
    /\ now = 0
    /\ slots = <<>>
    /\ appts = <<>>
    /\ flex = <<>>
    /\ weekly \in AtMost(WeeklyRows, MaxRows)
    /\ overrides \in AtMost(OverrideRows, MaxRows)
    /\ timeoff \in AtMost(TimeOffRows, 1)
    /\ pc = [r \in Requests |-> "idle"]
    /\ req = [r \in Requests |-> NoReq]
    /\ answer = NoAnswer

\* AvailableSlotsView.get: the resolved windows and the candidates of each window
\* are kept beside the returned starts
GetAvailableStarts(p, d, dur) ==
    /\ \E wins \in WindowOrders(day_windows_for_physician(weekly, overrides, p, d)) :
          answer' = [kind |-> "starts", physician |-> p, date |-> d, duration |-> dur,
                     now |-> now,
                     windows |-> wins,
                     candidates |-> [i \in DOMAIN wins |-> iter_candidates(wins[i], dur)],
                     starts |-> slots_in_windows(wins, appts, slots, p, dur, now),
                     \* what the previous query returned
                     prev |-> IF answer.kind = "starts"
                              THEN [kind |-> "starts", physician |-> answer.physician,
                                    date |-> answer.date, duration |-> answer.duration,
                                    now |-> answer.now, windows |-> answer.windows,
                                    starts |-> answer.starts]
                              ELSE NoAnswer]
    /\ UNCHANGED <<now, dbvars, concvars, timeoff>>

NextAvail ==
    \/ Tick
    \/ \E p \in OnCall, d \in Dates, dur \in Durations : GetAvailableStarts(p, d, dur)

SpecAvail == InitAvail /\ [][NextAvail]_vars

\* ------------------------------------------------- a booked morning
\* The provider works 09:00-17:00 (36..68); flexible bookings of 30 or 45 minutes
\* are made and cancelled around 10:00 (40) and the starts are queried.
MorningStarts == {40, 43}
MorningDurations == {2, 3}

InitMorning ==
    /\ now = 0
    /\ slots = <<>>
    /\ appts = <<>>
    /\ flex = <<>>
    /\ weekly = {WeeklyWindow("dr1", 0, 36, 68)}
    /\ overrides = {}
    /\ pc = [r \in Requests |-> "idle"]
    /\ req = [r \in Requests |-> NoReq]
    /\ timeoff = {}
    /\ answer = NoAnswer

NextMorning ==
    \/ Tick
    \/ \E p \in OnCall, me \in Patients, s \in MorningStarts, d \in MorningDurations :
          BookFlexible(p, me, s, d)
    \/ \E id \in 1..MaxFlex, st \in Statuses : SetFlexStatus(id, st)
    \/ \E p \in OnCall, d \in Dates, dur \in MorningDurations : GetAvailableStarts(p, d, dur)

SpecMorning == InitMorning /\ [][NextMorning]_vars

\* ------------------------------------------------- FlexAppointmentViewSet
\* accounts with is_staff set; their role is the default one
Staff == {"admin"}
Actors == Users \cup Staff

is_staff(u) == u \in Staff

SAFE_METHODS == {"GET", "HEAD", "OPTIONS"}

\* FlexAppointmentViewSet.get_queryset: the rows the user may address
flex_get_queryset(u, fl) ==
    IF is_staff(u) THEN DOMAIN fl
    ELSE IF role(u) = "PATIENT" THEN {i \in DOMAIN fl : fl[i].patient = u}
    ELSE IF role(u) = "PHYSICIAN" THEN {i \in DOMAIN fl : fl[i].physician = u}
    ELSE {}

\* IsOwnerOrReadOnly.has_object_permission for a FlexAppointment: the class has
\* no branch for this model, so the last line decides
has_object_permission(u, method) ==
    IF is_staff(u) THEN TRUE ELSE method \in SAFE_METHODS

\* PATCH {status: st} on a FlexAppointment: get_object(), the object permission,
\* FlexAppointmentCreateSerializer(partial=True) and instance.save(); status is a
\* read-only field of the serializer, so the row is saved as it was loaded
flex_partial_update(u, fl, ap, sl, id, st) ==
    LET sv == FlexAppointment_save(fl, ap, sl, fl[id], id)
    IN IF id \notin flex_get_queryset(u, fl)
       THEN [res |-> "notfound", flex |-> fl, slots |-> sl]
       ELSE IF ~has_object_permission(u, "PATCH")
       THEN [res |-> "forbidden", flex |-> fl, slots |-> sl]
       ELSE [res |-> sv.res, flex |-> sv.flex, slots |-> sv.slots]

\* ------------------------------------------------- batch generation
\* Slots made by batch runs, by single posts and by sliced windows, around
\* flexible bookings.
\* the time pairs a run may be given: any one or two (start, end) pairs of the
\* day, overlapping or repeated ones included
TimePairs == {<<s, e>> \in Times \X Times : s < e}
TimeLists == {<<a>> : a \in TimePairs} \cup {<<a, b>> : a \in TimePairs, b \in TimePairs}

NextBatch ==
    \/ Tick
    \/ \E p \in OnCall, s \in Times, d \in Durations :
          s + d <= MaxTime /\ CreateSlot(p, s, s + d)
    \/ \E p \in OnCall, step \in Durations : AddAvailabilityWindow(p, 1, 3, step)
    \/ \E p \in OnCall, times \in TimeLists : GenerateSlots(p, times)
    \/ \E p \in OnCall, me \in Patients, s \in Times, d \in Durations :
          s + d <= MaxTime /\ BookFlexible(p, me, s, d)

SpecBatch == Init /\ [][NextBatch]_vars

\* ------------------------------------------------- properties
OtherRequest(r) == CHOOSE o \in Requests : o # r

\* the two requests are for the same provider and their intervals overlap
RacingPair(r1, r2) ==
    /\ r1 # r2
    /\ req[r1].kind \in {"fixed", "flex"} /\ req[r2].kind \in {"fixed", "flex"}
    /\ req[r1].physician = req[r2].physician
    /\ Overlaps(req[r1].start, req[r1].end, req[r2].start, req[r2].end)

\* the request ran to its end on a request that is valid by itself and met no
\* storage failure
Answered(r) == pc[r] = "done" /\ req[r].res \in {"ok", "conflict", "dberror"}

\* C1: two concurrent BookFlexible requests for the same provider with overlapping
\* intervals never both commit a booking, and when both have been answered exactly
\* one has a committed booking and the other a conflict error.
C1_OneFlexBookingOneConflict ==
    \A r1, r2 \in Requests :
        (RacingPair(r1, r2) /\ req[r1].kind = "flex" /\ req[r2].kind = "flex") =>
            /\ ~(req[r1].wrote # 0 /\ req[r2].wrote # 0)
            /\ (Answered(r1) /\ Answered(r2)) =>
                  \/ req[r1].res = "ok" /\ req[r2].res = "conflict"
                  \/ req[r2].res = "ok" /\ req[r1].res = "conflict"

\* the interval of a fixed booking is the interval of its slot
ApptStart(a) == slots[appts[a].slot].start
ApptEnd(a) == slots[appts[a].slot].end
ActiveFlex == {i \in DOMAIN flex : flex[i].status \in ActiveStates}
ActiveAppts == {a \in DOMAIN appts : appts[a].status \in ActiveStates}

\* C2: with the operations run one at a time, no provider has two pending or
\* confirmed bookings (fixed through the slot's interval, or flexible) whose
\* half-open intervals overlap.
C2_NoDoubleBooking ==
    /\ \A i, j \in ActiveFlex :
          (i # j /\ flex[i].physician = flex[j].physician) =>
              ~Overlaps(flex[i].start, flex[i].end, flex[j].start, flex[j].end)
    /\ \A i \in ActiveFlex, a \in ActiveAppts :
          flex[i].physician = appts[a].physician =>
              ~Overlaps(flex[i].start, flex[i].end, ApptStart(a), ApptEnd(a))
    /\ \A a, b \in ActiveAppts :
          (a # b /\ appts[a].physician = appts[b].physician) =>
              ~Overlaps(ApptStart(a), ApptEnd(a), ApptStart(b), ApptEnd(b))

\* a provider holds an active fixed and an active flexible booking side by side,
\* and a cancelled flexible booking lies under an active one
C2_Witness ==
    /\ \E i \in ActiveFlex, a \in ActiveAppts : flex[i].physician = appts[a].physician
    /\ \E i \in ActiveFlex, x \in DOMAIN flex :
          /\ flex[x].status = "CANCELLED"
          /\ flex[x].physician = flex[i].physician
          /\ Overlaps(flex[x].start, flex[x].end, flex[i].start, flex[i].end)

\* C3: no slot with is_booked = FALSE overlaps a pending or confirmed fixed or
\* flexible booking of the same provider.
C3_FreeSlotHasNoBooking ==
    \A s \in DOMAIN slots :
        ~slots[s].is_booked =>
            /\ FlexOverlapOf(flex, slots[s].physician, slots[s].start, slots[s].end, NoFlex) = {}
            /\ LegacyOverlapOf(appts, slots, slots[s].physician,
                               slots[s].start, slots[s].end) = {}

AvailableStarts(p, d, dur) ==
    Range(get_available_slots(weekly, overrides, appts, slots, p, d, dur, now))

\* C4: no start s returned by GetAvailableStarts(P, D, d) has [s, s+d) overlapping
\* a pending or confirmed flexible booking of P (so the start just booked is not
\* returned).
C4_StartsAvoidFlexBookings ==
    \A p \in Physicians, d \in Dates, dur \in Durations :
        \A s \in AvailableStarts(p, d, dur) :
            FlexOverlapOf(flex, p, s, s + dur, NoFlex) = {}

BookedSlotOverlap(p, s, e) ==
    \E i \in DOMAIN slots : /\ slots[i].physician = p
                            /\ slots[i].is_booked
                            /\ Overlaps(slots[i].start, slots[i].end, s, e)

\* the conflict set of the data model: fixed bookings, flexible bookings, booked slots
InConflictSet(p, s, e) ==
    \/ LegacyOverlapOf(appts, slots, p, s, e) # {}
    \/ FlexOverlapOf(flex, p, s, e, NoFlex) # {}
    \/ BookedSlotOverlap(p, s, e)

\* C5: HasConflict(provider, start, end) is true exactly when a pending/confirmed
\* fixed booking, a pending/confirmed flexible booking or a booked slot of the
\* provider overlaps [start, end).
C5_HasConflictIsConflictSet ==
    \A p \in Physicians, s \in Times, e \in Times :
        s < e => (has_conflict(appts, slots, p, s, e) <=> InConflictSet(p, s, e))

\* C6: a successful BookFlexible stores the booking as confirmed and, in the same
\* committed state, every slot of the provider overlapping it is booked with its
\* back-reference equal to the new booking.
C6_NewFlexBlocksSlots ==
    [][Len(flex') = Len(flex) + 1 =>
          LET id == Len(flex')
              f == flex'[id]
          IN /\ f.status = "CONFIRMED"
             /\ \A s \in DOMAIN slots' :
                   (/\ slots'[s].physician = f.physician
                    /\ Overlaps(slots'[s].start, slots'[s].end, f.start, f.end)) =>
                       /\ slots'[s].is_booked
                       /\ slots'[s].booked_by_flex = id]_vars

\* a confirmed flexible booking holds a slot that begins before it or ends after it
C6_Witness ==
    \E i \in DOMAIN flex, s \in DOMAIN slots :
        /\ flex[i].status = "CONFIRMED"
        /\ slots[s].booked_by_flex = i
        /\ slots[s].is_booked
        /\ (slots[s].start < flex[i].start \/ slots[s].end > flex[i].end)

\* the starts the generator yields for a date and duration, before any filtering
CandidateStarts(wk, ov, p, d, dur) ==
    LET wins == day_windows_for_physician(wk, ov, p, d)
    IN UNION {Range(iter_candidates(wins[i], dur)) : i \in DOMAIN wins}

\* C7: when a confirmed flexible booking is cancelled, every slot whose
\* back-reference was that booking is free with no back-reference, and every
\* candidate start that overlaps the booking, is not in the past and meets nothing
\* else of the conflict set is returned by GetAvailableStarts.
C7_CancelReleases ==
    [][\A x \in DOMAIN flex :
          (flex[x].status = "CONFIRMED" /\ flex'[x].status = "CANCELLED") =>
              /\ \A s \in DOMAIN slots :
                    slots[s].booked_by_flex = x =>
                        /\ ~slots'[s].is_booked
                        /\ slots'[s].booked_by_flex = NoFlex
              /\ \A d \in Dates, dur \in Durations :
                    \A c \in CandidateStarts(weekly', overrides', flex[x].physician, d, dur) :
                        (/\ c >= now'
                         /\ Overlaps(flex[x].start, flex[x].end, c, c + dur)
                         /\ LegacyOverlapOf(appts', slots', flex[x].physician, c, c + dur) = {}
                         /\ FlexOverlapOf(flex', flex[x].physician, c, c + dur, NoFlex) = {}
                         /\ \A i \in DOMAIN slots' :
                               (/\ slots'[i].physician = flex[x].physician
                                /\ Overlaps(slots'[i].start, slots'[i].end, c, c + dur)) =>
                                   ~slots'[i].is_booked) =>
                            c \in Range(get_available_slots(weekly', overrides', appts', slots',
                                            flex[x].physician, d, dur, now'))]_vars

\* a cancelled flexible booking lies over a slot that is free again and over a
\* start that is offered
C7_Witness ==
    \E x \in DOMAIN flex, s \in DOMAIN slots, dur \in Durations :
        /\ flex[x].status = "CANCELLED"
        /\ slots[s].physician = flex[x].physician
        /\ Overlaps(slots[s].start, slots[s].end, flex[x].start, flex[x].end)
        /\ ~slots[s].is_booked
        /\ slots[s].booked_by_flex = NoFlex
        /\ \E c \in AvailableStarts(flex[x].physician, 0, dur) :
              Overlaps(flex[x].start, flex[x].end, c, c + dur)

\* C8: when a slot overlaps two confirmed flexible bookings of its provider,
\* cancelling either of them leaves the slot booked.
C8_SharedSlotStaysBooked ==
    [][\A x, y \in DOMAIN flex, s \in DOMAIN slots :
          (/\ x # y
           /\ flex[x].status = "CONFIRMED" /\ flex'[x].status = "CANCELLED"
           /\ flex[y].status = "CONFIRMED" /\ flex'[y].status = "CONFIRMED"
           /\ slots[s].physician = flex[x].physician
           /\ slots[s].physician = flex[y].physician
           /\ Overlaps(slots[s].start, slots[s].end, flex[x].start, flex[x].end)
           /\ Overlaps(slots[s].start, slots[s].end, flex[y].start, flex[y].end)) =>
              slots'[s].is_booked]_vars

\* C9: of two concurrent booking requests (fixed or flexible) for the same
\* provider with overlapping intervals, at most one commits a booking.
C9_AtMostOneCommit ==
    \A r1, r2 \in Requests :
        RacingPair(r1, r2) => (req[r1].wrote = 0 \/ req[r2].wrote = 0)

\* C10: a booking attempt that fails leaves the booking rows and the slots as they
\* were before the attempt (stated while no other request has started).
C10_FailedAttemptWritesNothing ==
    \A r \in Requests :
        (/\ pc[r] = "done"
         /\ req[r].res # "ok"
         /\ pc[OtherRequest(r)] = "idle") => Db = req[r].pre

\* C11: a status change to cancelled and the release of the slots that refer to
\* the booking are one step of the committed state: after every step no cancelled
\* booking is referred to by a slot, a booking that becomes cancelled leaves none of
\* its slots booked, and a slot released from a booking's back-reference is
\* released in the step that cancels the booking.
C11_CancelIsAtomic ==
    [][\A x \in DOMAIN flex :
          /\ flex'[x].status = "CANCELLED" =>
                \A s \in DOMAIN slots' : slots'[s].booked_by_flex # x
          /\ (flex[x].status \in ActiveStates /\ flex'[x].status = "CANCELLED") =>
                \A s \in DOMAIN slots :
                    slots[s].booked_by_flex = x => ~slots'[s].is_booked
          /\ \A s \in DOMAIN slots :
                (/\ slots[s].booked_by_flex = x
                 /\ slots'[s].booked_by_flex = NoFlex
                 /\ ~slots'[s].is_booked) => flex'[x].status = "CANCELLED"]_vars

\* a request has cancelled the booking that held the slot while the other request
\* was under way, and the slot is free of it
C11_Witness ==
    \E r \in Requests, x \in DOMAIN flex, s \in DOMAIN slots :
        /\ req[r].kind = "status" /\ req[r].res = "ok" /\ req[r].sid = x
        /\ req[r].old_status = "CONFIRMED"
        /\ flex[x].status = "CANCELLED"
        /\ Overlaps(slots[s].start, slots[s].end, flex[x].start, flex[x].end)
        /\ slots[s].booked_by_flex = NoFlex
        /\ pc[OtherRequest(r)] \notin {"idle", "done"}

\* C12: a successful booking through any entry point leaves its client with no
\* other pending or confirmed booking (fixed or flexible, with any provider) that
\* overlaps the new one.
C12_ClientNeverDoubleBooked ==
    [][/\ Len(flex') = Len(flex) + 1 =>
             LET f == flex'[Len(flex')]
             IN /\ ~PatientFlexOverlap(flex, f.patient, f.start, f.end)
                /\ ~PatientLegacyOverlap(appts', slots', f.patient, f.start, f.end)
       /\ Len(appts') = Len(appts) + 1 =>
             LET a == appts'[Len(appts')]
                 s == slots'[a.slot]
             IN /\ ~PatientFlexOverlap(flex', a.patient, s.start, s.end)
                /\ ~PatientLegacyOverlap(appts, slots, a.patient, s.start, s.end)]_vars

\* C13: no stored booking has the same user as provider and client, or a user
\* with the provider role as client (every entry point rejects such a request).
C13_ClientIsNotProvider ==
    /\ \A i \in DOMAIN flex :
          flex[i].patient # flex[i].physician /\ ~is_physician(flex[i].patient)
    /\ \A a \in DOMAIN appts :
          appts[a].patient # appts[a].physician /\ ~is_physician(appts[a].patient)

\* an availability query has been answered
Asked == answer.kind = "starts"

\* the stored overrides of a provider for a date
ClosedOn(p, d) == \E o \in overrides : o.physician = p /\ o.date = d /\ o.is_closed
OpenOverrides(p, d) == {o \in overrides : o.physician = p /\ o.date = d /\ ~o.is_closed}
ActiveWeekly(p, d) ==
    {w \in weekly : w.physician = p /\ w.weekday = weekday(d) /\ w.is_active}

\* the (start, end) pairs of a list of windows
Spans(wins) == {<<wins[i].start, wins[i].end>> : i \in DOMAIN wins}

\* C14: when a closed override exists for the provider and date, the resolver
\* returns no windows and the query returns no starts, whatever weekly windows and
\* non-closed overrides are stored.
C14_ClosedDayIsEmpty ==
    (Asked /\ ClosedOn(answer.physician, answer.date)) =>
        answer.windows = <<>> /\ answer.starts = <<>>

\* a closed day that also has an active weekly window and a non-closed override
C14_Witness ==
    /\ Asked
    /\ ClosedOn(answer.physician, answer.date)
    /\ OpenOverrides(answer.physician, answer.date) # {}
    /\ ActiveWeekly(answer.physician, answer.date) # {}
    /\ answer.starts = <<>>

\* C15: with no closed override, the resolver returns exactly the time ranges of
\* the non-closed overrides when there is one, and the active weekly windows of
\* the weekday only when the date has no override.
C15_OverridesReplaceWeekly ==
    (Asked /\ ~ClosedOn(answer.physician, answer.date)) =>
        LET p == answer.physician
            d == answer.date
            ovr == OpenOverrides(p, d)
            wkl == ActiveWeekly(p, d)
        IN IF ovr # {}
           THEN /\ Len(answer.windows) = Cardinality(ovr)
                /\ Spans(answer.windows) =
                      {<<aware_local(d, o.start_time), aware_local(d, o.end_time)>> : o \in ovr}
           ELSE /\ Len(answer.windows) = Cardinality(wkl)
                /\ Spans(answer.windows) =
                      {<<aware_local(d, w.start_time), aware_local(d, w.end_time)>> : w \in wkl}

\* a date with a non-closed override and an active weekly window of another range
C15_Witness ==
    /\ Asked
    /\ ~ClosedOn(answer.physician, answer.date)
    /\ OpenOverrides(answer.physician, answer.date) # {}
    /\ \E w \in ActiveWeekly(answer.physician, answer.date) :
          <<aware_local(answer.date, w.start_time), aware_local(answer.date, w.end_time)>>
              \notin Spans(answer.windows)
    /\ answer.starts # <<>>

\* C16: no returned start s has [s, s + d) overlapping a stored time-off block of
\* the queried provider.
C16_TimeOffIsSubtracted ==
    Asked =>
        \A i \in DOMAIN answer.starts : \A t \in timeoff :
            t.physician = answer.physician =>
                ~Overlaps(answer.starts[i], answer.starts[i] + answer.duration,
                          t.start, t.end)

\* C17: every returned start s for duration d lies in a resolved window, with
\* winStart <= s and s + d <= winEnd, and is not before the clock value of the
\* query.
C17_StartsFitWindowAndNotPast ==
    Asked =>
        \A i \in DOMAIN answer.starts :
            LET s == answer.starts[i]
            IN /\ \E w \in DOMAIN answer.windows :
                      /\ answer.windows[w].start <= s
                      /\ s + answer.duration <= answer.windows[w].end
               /\ s >= answer.now

\* a query after the clock moved: a candidate of a window is already past and is
\* left out, another one is returned
C17_Witness ==
    /\ Asked
    /\ answer.now > 0
    /\ \E w \in DOMAIN answer.candidates :
          \E c \in Range(answer.candidates[w]) :
              c < answer.now /\ c \notin Range(answer.starts)
    /\ answer.starts # <<>>

\* the times of a window that are multiples of d from local midnight and leave
\* room for d before the window's end
GridStarts(win, d) ==
    {t \in win.start..win.end : (t % DayLen) % d = 0 /\ t + d <= win.end}

\* C18: the candidates of one window for duration d are exactly the multiples of
\* d from local midnight t with winStart <= t and t + d <= winEnd, each once, a
\* candidate ending at winEnd included; for 09:00-17:00 and d = 30 minutes the
\* first is 09:00 and the last 16:30.
C18_CandidatesAreTheGrid ==
    Asked =>
        \A w \in DOMAIN answer.windows :
            LET win == answer.windows[w]
                c == answer.candidates[w]
                d == answer.duration
            IN /\ Range(c) = GridStarts(win, d)
               /\ Len(c) = Cardinality(GridStarts(win, d))
               /\ (win.start = aware_local(answer.date, 36)
                      /\ win.end = aware_local(answer.date, 68) /\ d = 2) =>
                     (c[1] = aware_local(answer.date, 36)
                        /\ c[Len(c)] = aware_local(answer.date, 66))

\* a half-hour query over the window 09:00-17:00, whose last candidate ends at
\* the window's end, and over a window that starts off the half-hour grid
C18_Witness ==
    /\ Asked
    /\ answer.duration = 2
    /\ \E w \in DOMAIN answer.windows :
          /\ answer.windows[w].start = aware_local(answer.date, 36)
          /\ answer.windows[w].end = aware_local(answer.date, 68)
          /\ answer.candidates[w] # <<>>
          /\ answer.candidates[w][Len(answer.candidates[w])] + 2 = answer.windows[w].end
    /\ \E w \in DOMAIN answer.windows : answer.windows[w].start % 2 # 0

\* C19: the resolved windows are in strictly ascending start order (no two share
\* a start) and each has start <= end, for any stored weekly windows and
\* overrides.
C19_WindowsStrictlyAscending ==
    Asked =>
        /\ \A i, j \in DOMAIN answer.windows :
              i < j => answer.windows[i].start < answer.windows[j].start
        /\ \A i \in DOMAIN answer.windows :
              answer.windows[i].start <= answer.windows[i].end

\* C20: the returned starts are in ascending order and no start occurs twice,
\* also when two windows of the date overlap.
C20_StartsAscendingNoDuplicate ==
    Asked =>
        \A i, j \in DOMAIN answer.starts :
            i < j => answer.starts[i] < answer.starts[j]

\* the last two queries were for the same provider, date and duration
AskedTwice ==
    /\ Asked
    /\ answer.prev.kind = "starts"
    /\ answer.prev.physician = answer.physician
    /\ answer.prev.date = answer.date
    /\ answer.prev.duration = answer.duration

\* C21 as stated: two queries for the same provider, date and duration with no
\* booking in between return identical lists.
C21_SameQuerySameList == AskedTwice => answer.starts = answer.prev.starts

\* C21, amended: two queries for the same provider, date and duration at the same
\* clock value, with no change of the bookings or of the stored windows in between,
\* return identical lists, in whatever order the rows were fetched.
C21_SameQuerySameListSameClock ==
    (AskedTwice /\ answer.prev.now = answer.now) => answer.starts = answer.prev.starts

\* the same query twice at one clock value, the windows fetched in two different
\* orders, with a non-empty answer
C21_Witness ==
    /\ AskedTwice
    /\ answer.prev.now = answer.now
    /\ answer.prev.windows # answer.windows
    /\ answer.starts # <<>>

\* a cancelled booking of provider p overlaps [s, e) and no pending or confirmed
\* one does
OnlyCancelledOver(p, s, e) ==
    /\ FlexOverlapOf(flex, p, s, e, NoFlex) = {}
    /\ LegacyOverlapOf(appts, slots, p, s, e) = {}
    /\ \/ \E i \in DOMAIN flex : /\ flex[i].physician = p
                                 /\ flex[i].status = "CANCELLED"
                                 /\ Overlaps(flex[i].start, flex[i].end, s, e)
       \/ \E a \in DOMAIN appts : /\ appts[a].physician = p
                                  /\ appts[a].status = "CANCELLED"
                                  /\ Overlaps(ApptStart(a), ApptEnd(a), s, e)

\* the client is a patient with no pending or confirmed booking over [s, e)
ClientIsFree(me, s, e) ==
    /\ ~is_physician(me)
    /\ ~PatientLegacyOverlap(appts, slots, me, s, e)
    /\ ~PatientFlexOverlap(flex, me, s, e)

\* C22: a cancelled booking never blocks: over an interval of a provider that only
\* cancelled bookings overlap, HasConflict is false, a BookFlexible request that
\* does not end in the past is accepted, and a BookFixed request for a slot that
\* starts in the future is accepted.
C22_CancelledNeverBlocks ==
    /\ \A p \in Physicians, me \in Patients, s \in Times, d \in Durations :
          (OnlyCancelledOver(p, s, s + d) /\ ClientIsFree(me, s, s + d) /\ s + d > now) =>
              /\ ~has_conflict(appts, slots, p, s, s + d)
              /\ create_appointment_flex(flex, appts, slots, p, me, s, d, now).res = "ok"
    /\ \A sid \in DOMAIN slots, me \in Patients :
          (/\ OnlyCancelledOver(slots[sid].physician, slots[sid].start, slots[sid].end)
           /\ ClientIsFree(me, slots[sid].start, slots[sid].end)
           /\ slots[sid].start > now) =>
              create_appointment_fixed(flex, appts, slots, sid, me, now).res = "ok"

\* the place of a status on the path pending -> confirmed -> cancelled
StatusRank(st) == IF st = "PENDING" THEN 1 ELSE IF st = "CONFIRMED" THEN 2 ELSE 3

\* C23: the status of a booking only moves forward along pending -> confirmed ->
\* cancelled, and a cancelled booking keeps its status in every later step.
C23_StatusOnlyMovesForward ==
    [][/\ \A i \in DOMAIN flex :
             /\ StatusRank(flex'[i].status) >= StatusRank(flex[i].status)
             /\ flex[i].status = "CANCELLED" => flex'[i].status = "CANCELLED"
       /\ \A a \in DOMAIN appts :
             /\ StatusRank(appts'[a].status) >= StatusRank(appts[a].status)
             /\ appts[a].status = "CANCELLED" => appts'[a].status = "CANCELLED"]_vars

\* the calendar feed of a provider for the whole modelled day
DayFeed(p, dur) ==
    calendar_events(weekly, overrides, flex, appts, slots, p, 0, MaxTime, dur, now)

\* C24: in every calendar feed no available entry (computed from the windows or
\* taken from a free slot) overlaps a booked entry of the same feed.
C24_AvailableNeverUnderBooked ==
    \A p \in Physicians, dur \in Durations :
        \A i, j \in DOMAIN DayFeed(p, dur) :
            (/\ DayFeed(p, dur)[i].type \in {"AVAILABLE", "AVAILABLE_ROW"}
             /\ DayFeed(p, dur)[j].type \in {"BOOKED_LEGACY", "BOOKED_FLEX"}) =>
                ~Overlaps(DayFeed(p, dur)[i].start, DayFeed(p, dur)[i].end,
                          DayFeed(p, dur)[j].start, DayFeed(p, dur)[j].end)

\* C25: no two slots of the same provider overlap, whatever slot-creation
\* operations (single slot, sliced window, batch generation) have run.
C25_SlotsNeverOverlap ==
    \A i, j \in DOMAIN slots :
        (i # j /\ slots[i].physician = slots[j].physician) =>
            ~Overlaps(slots[i].start, slots[i].end, slots[j].start, slots[j].end)

\* the slices [start + k*step, start + (k+1)*step) of a dragged window
Slices(start, end, step) ==
    {<<start + k * step, start + (k + 1) * step>> : k \in 0..(end - start)}

\* the slice [a, b) of provider p fits the window, does not end in the past and
\* overlaps no pending or confirmed booking and no slot of the provider
SliceIsWanted(p, end, a, b) ==
    /\ b <= end
    /\ b > now
    /\ \A i \in ActiveFlex :
          flex[i].physician = p => ~Overlaps(flex[i].start, flex[i].end, a, b)
    /\ \A x \in ActiveAppts :
          appts[x].physician = p => ~Overlaps(ApptStart(x), ApptEnd(x), a, b)
    /\ \A i \in DOMAIN slots :
          slots[i].physician = p => ~Overlaps(slots[i].start, slots[i].end, a, b)

\* CreatePreslicedWindow(p, start, end, step) on the current tables
WindowResult(p, start, end, step) ==
    add_availability_window(flex, appts, slots, overrides, p, start, end, step, now)

C27_StartAtBookingEndIsOffered ==
    (/\ Asked
     /\ answer.duration = 2
     /\ \E i \in DOMAIN flex : /\ flex[i].physician = answer.physician
                               /\ flex[i].status = "CONFIRMED"
                               /\ flex[i].start = aware_local(answer.date, 40)
                               /\ flex[i].end = aware_local(answer.date, 43)
     /\ \E w \in DOMAIN answer.windows :
           /\ answer.windows[w].start <= aware_local(answer.date, 40)
           /\ answer.windows[w].end >= aware_local(answer.date, 45)) =>
        /\ aware_local(answer.date, 40) \notin Range(answer.starts)
        /\ aware_local(answer.date, 41) \notin Range(answer.starts)
        /\ aware_local(answer.date, 42) \notin Range(answer.starts)
        /\ aware_local(answer.date, 43) \in Range(answer.starts)

\* C28: a flexible booking request whose end (start + duration) is not strictly
\* later than now is rejected by the view and by the API serializer, and the
\* rejection leaves the bookings and the slot flags as they were.
C28_PastRangeIsRejectedUnwritten ==
    \A p \in OnCall, me \in Patients, s \in Times, d \in Durations :
        s + d <= now =>
            LET a == create_appointment_flex(flex, appts, slots, p, me, s, d, now)
                b == serializer_create(weekly, overrides, flex, appts, slots, p, me, s, d, now)
            IN /\ a.res # "ok" /\ a.flex = flex /\ a.slots = slots
               /\ b.res # "ok" /\ b.flex = flex /\ b.slots = slots

\* a request that ends at now and that nothing but the clock stands against,
\* asked while bookings and slots exist
C28_Witness ==
    /\ flex # <<>>
    /\ slots # <<>>
    /\ \E p \in OnCall, me \in Patients, s \in Times, d \in Durations :
          /\ s + d = now
          /\ create_appointment_flex(flex, appts, slots, p, me, s, d, 0).res = "ok"
          /\ create_appointment_flex(flex, appts, slots, p, me, s, d, now).res = "past"

\* the outcome of a fixed booking request of me on slot sid in the current state
FixedOutcome(sid, me) == create_appointment_fixed(flex, appts, slots, sid, me, now)

\* C29: a fixed booking on a slot commits only when the slot is not booked, starts
\* in the future and no pending or confirmed flexible booking of the slot's
\* provider overlaps it; on success the slot is booked with no back-reference;
\* a rejected request changes no booking and no slot.
C29_FixedCommitsOnlyOnFreeFutureSlot ==
    \A sid \in DOMAIN slots, me \in Patients :
        LET r == FixedOutcome(sid, me)
        IN /\ r.appts # appts =>
                /\ ~slots[sid].is_booked
                /\ slots[sid].start > now
                /\ FlexOverlapOf(flex, slots[sid].physician,
                                 slots[sid].start, slots[sid].end, NoFlex) = {}
           /\ r.res = "ok" =>
                /\ r.appts = Append(appts, NewAppointment(sid, slots[sid].physician, me))
                /\ r.slots[sid].is_booked
                /\ r.slots[sid].booked_by_flex = NoFlex
                /\ \A j \in DOMAIN slots : j # sid => r.slots[j] = slots[j]
           /\ r.res # "ok" => r.appts = appts /\ r.slots = slots

\* a fixed booking was made, and a request on a free future slot is turned down
\* by the booking's own check because a flexible booking lies over the slot
C29_Witness ==
    /\ appts # <<>>
    /\ \E sid \in DOMAIN slots, me \in Patients :
          /\ ~slots[sid].is_booked
          /\ slots[sid].start > now
          /\ FixedViewChecks(flex, appts, slots, sid, me, now) = "ok"
          /\ FixedOutcome(sid, me).res = "conflict"

NothingInside(p, me, s, e) ==
    /\ \A j \in DOMAIN flex :
          (flex[j].status \in ActiveStates /\ (flex[j].physician = p \/ flex[j].patient = me)) =>
              (flex[j].end <= s \/ e <= flex[j].start)
    /\ \A j \in DOMAIN appts :
          (appts[j].status \in ActiveStates /\ (appts[j].physician = p \/ appts[j].patient = me)) =>
              (ApptEnd(j) <= s \/ e <= ApptStart(j))

\* C31: intervals that only touch do not conflict: with an active flexible booking
\* [a, b) of a provider, a flexible request [b, c) for the same provider that no
\* active booking reaches into is not rejected for conflict, by the view or by the
\* API serializer.
C31_TouchingIntervalsDoNotConflict ==
    \A i \in DOMAIN flex, me \in Patients, d \in Durations :
        (/\ flex[i].status \in ActiveStates
         /\ NothingInside(flex[i].physician, me, flex[i].end, flex[i].end + d)) =>
            /\ create_appointment_flex(flex, appts, slots, flex[i].physician, me,
                                       flex[i].end, d, now).res # "conflict"
            /\ serializer_create(weekly, overrides, flex, appts, slots, flex[i].physician, me,
                                 flex[i].end, d, now).res # "conflict"

\* two active flexible bookings of one provider, the second starting where the
\* first ends
C31_Witness ==
    \E i, j \in DOMAIN flex :
        /\ i < j
        /\ flex[i].physician = flex[j].physician
        /\ flex[i].status \in ActiveStates
        /\ flex[j].status \in ActiveStates
        /\ flex[j].start = flex[i].end

\* C32: a flexible request that starts in the future and that no active booking
\* of the provider or the client reaches into is admitted by both entry points
\* even when its start is not in the list of available starts for its date and
\* duration.
C32_OffListRequestIsAdmitted ==
    \A p \in OnCall, me \in Patients, s \in Times, d \in Durations :
        (/\ s > now
         /\ NothingInside(p, me, s, s + d)
         /\ s \notin Range(get_available_slots(weekly, overrides, appts, slots, p,
                                               date_of(s), d, now))) =>
            /\ create_appointment_flex(flex, appts, slots, p, me, s, d, now).res = "ok"
            /\ serializer_create(weekly, overrides, flex, appts, slots, p, me, s, d, now).res = "ok"

\* C33: a request to cancel an active flexible booking succeeds exactly when the
\* actor is the booking's provider or its client; any other actor is refused with
\* an authorization error and the bookings and slot flags stay as they were.
C33_OnlyParticipantsCancel ==
    \A i \in DOMAIN flex, a \in Actors :
        flex[i].status \in ActiveStates =>
            LET r == flex_partial_update(a, flex, appts, slots, i, "CANCELLED")
                participant == a \in {flex[i].physician, flex[i].patient}
            IN /\ participant => r.res = "ok" /\ r.flex[i].status = "CANCELLED"
               /\ ~participant => r.res = "forbidden" /\ r.flex = flex /\ r.slots = slots

\* C34: cancelling flexible booking x changes the flag and back-reference only of
\* slots whose back-reference is x; every other slot, every other flexible booking
\* and every Appointment stay as they were.
C34_CancelTouchesOnlyOwnSlots ==
    [][\A x \in DOMAIN flex :
          (flex[x].status \in ActiveStates /\ flex'[x].status = "CANCELLED") =>
              /\ DOMAIN slots' = DOMAIN slots
              /\ \A s \in DOMAIN slots : slots[s].booked_by_flex # x => slots'[s] = slots[s]
              /\ \A s \in DOMAIN slots :
                    /\ slots'[s].physician = slots[s].physician
                    /\ slots'[s].start = slots[s].start
                    /\ slots'[s].end = slots[s].end
              /\ DOMAIN flex' = DOMAIN flex
              /\ \A y \in DOMAIN flex : y # x => flex'[y] = flex[y]
              /\ flex'[x] = [flex[x] EXCEPT !.status = "CANCELLED"]
              /\ appts' = appts]_vars

\* a cancelled booking whose slot is free again next to a slot another booking
\* still holds
C34_Witness ==
    \E x, y \in DOMAIN flex, s, t \in DOMAIN slots :
        /\ x # y
        /\ flex[x].status = "CANCELLED"
        /\ flex[y].status = "CONFIRMED"
        /\ slots[s].physician = flex[x].physician
        /\ Overlaps(slots[s].start, slots[s].end, flex[x].start, flex[x].end)
        /\ ~slots[s].is_booked
        /\ slots[t].is_booked
        /\ slots[t].booked_by_flex = y

\* C35: an existing pending or confirmed Appointment can be moved to cancelled:
\* saving it with status CANCELLED passes validation and the stored status is
\* CANCELLED, although its own slot is booked.
C35_FixedBookingCanBeCancelled ==
    \A i \in DOMAIN appts :
        appts[i].status \in ActiveStates =>
            LET r == Appointment_save(flex, appts, slots, slots[appts[i].slot],
                                      [appts[i] EXCEPT !.status = "CANCELLED"], i, now)
            IN /\ r.res = "ok"
               /\ r.appts[i].status = "CANCELLED"

\* C36: creating pre-sliced slots for a window leaves the provider's weekly
\* windows, date overrides and time off unchanged, and the windows resolved for
\* every provider and date are the same before and after.
C36_SlicingLeavesWindowsAlone ==
    [][(\E p \in OnCall, step \in Durations : AddAvailabilityWindow(p, 1, 3, step)) =>
          /\ weekly' = weekly
          /\ overrides' = overrides
          /\ timeoff' = timeoff
          /\ \A p \in Physicians, d \in Dates :
                day_windows_for_physician(weekly', overrides', p, d)
                    = day_windows_for_physician(weekly, overrides, p, d)]_vars

\* C37: batch slot generation is idempotent: a second run with the same
\* provider, date, weekdays and times, nothing else having changed, creates no
\* slot and returns 0; and the count a run returns is the number of slots it added.
C37_GenerationIsIdempotent ==
    \A p \in OnCall, times \in TimeLists :
        LET r1 == generate_slots_for_physician(slots, p, 0, {0, 1, 2, 3, 4}, times)
            r2 == generate_slots_for_physician(r1.slots, p, 0, {0, 1, 2, 3, 4}, times)
        IN r1.res = "ok" =>
              /\ r1.created = Len(r1.slots) - Len(slots)
              /\ SubSeq(r1.slots, 1, Len(slots)) = slots
              /\ r2.res = "ok"
              /\ r2.created = 0
              /\ r2.slots = r1.slots

\* slots exist, and a run would add one slot and pass over another pair of its
\* list that overlaps a slot already there
C37_Witness ==
    /\ slots # <<>>
    /\ \E p \in OnCall, times \in TimeLists :
          LET r1 == generate_slots_for_physician(slots, p, 0, {0, 1, 2, 3, 4}, times)
          IN /\ Len(times) = 2
             /\ r1.res = "ok"
             /\ r1.created = 1
             /\ SlotOverlapOf(slots, p, times[1][1], times[1][2], 0) # {}

C39_EntryPointsAgree ==
    \A p \in OnCall, me \in Patients, s \in Times, d \in Durations :
        LET a == create_appointment_flex(flex, appts, slots, p, me, s, d, now)
            b == serializer_create(weekly, overrides, flex, appts, slots, p, me, s, d, now)
        IN /\ (a.res = "ok") <=> (b.res = "ok")
           /\ a.res = "ok" => (a.flex = b.flex /\ a.slots = b.slots)

====
